---- MODULE Spec2Model ----
(***************************************************************************)
(* Model of gdrive_summarizer: the orchestrator summarize_folder           *)
(* (summarizer.py), the folder downloader (downloader.py), the processor   *)
(* registry (processors/base.py) and the OpenRouter client (llm_client.py) *)
(* with its retry loop _request_with_retry and the vision fallback walk    *)
(* describe_image.                                                         *)
(*                                                                         *)
(* The program is single-threaded.  The model has one control point per    *)
(* loop head of the code: "idle" (before summarize_folder runs),           *)
(* "extract" (head of the `for f in files` loop), "request" (head of the   *)
(* `for attempt in range(1, MAX_RETRIES + 1)` loop) and "done".  An action *)
(* is everything the code does from one control point to the next.         *)
(*                                                                         *)
(* Texts (file contents, response bodies, replies) are records             *)
(* [id, len]: what the text is and how many characters it has; a slice     *)
(* text[:n] keeps the id and cuts the length.                              *)
(***************************************************************************)
EXTENDS Integers, Sequences, FiniteSets, TLC

(* ------------------------------ bounds -------------------------------- *)

\* most files the external gdown collaborator hands back in one run
MaxFiles == 2
\* longest configured VISION_FALLBACK_MODELS list in a run of the pipeline
MaxFallbacks == 1
\* longest configured fallback list given to the candidate-list builder
MaxFallbackLen == 3
\* largest configured MAX_RETRIES
MaxRetriesCfg == 2
\* largest configured RETRY_DELAY (in seconds)
MaxDelayCfg == 2

(* ------------------------- program constants -------------------------- *)

\* resp.text[:300] in the 403 branch
BlockedBodyCap == 300
\* last_resp.text[:500] in the retries-exhausted error
ExhaustedBodyCap == 500
\* content[:12_000] in the prompt assembly
ContentCap == 12000

(* ------------------------------- texts -------------------------------- *)

Str(i, n) == [id |-> i, len |-> n]
EmptyStr == Str("", 0)
\* Python's None where a text is expected
None == [id |-> "None", len |-> -1]
\* truthiness of an Optional[str]: None and "" are falsy
Truthy(s) == s.len > 0
Min(a, b) == IF a < b THEN a ELSE b
\* text[:n]
Slice(s, n) == Str(s.id, Min(s.len, n))

\* "(не удалось извлечь содержимое)"
Placeholder == Str("(extraction failed)", 31)
\* "Папка пуста или файлы не удалось скачать."
FolderEmptyMsg == Str("folder empty or download failed", 41)
\* "Не удалось извлечь содержимое ни из одного файла."
NothingExtractedMsg == Str("nothing extracted from any file", 49)

(* --------------------------- configuration ---------------------------- *)

VisionModels == {"M0", "M1", "M2"}
TEXT_MODEL == "T"

RECURSIVE SeqsUpTo(_, _)
\* all sequences over S of length at most n
SeqsUpTo(S, n) ==
    IF n = 0 THEN {<<>>}
    ELSE LET shorter == SeqsUpTo(S, n - 1)
         IN  shorter \cup {Append(s, x) : s \in {t \in shorter : Len(t) = n - 1}, x \in S}

(* --------------------- HTTP responses and errors ---------------------- *)

Statuses == {200, 204, 302, 402, 403, 404, 429, 500, 503}
TransientStatuses == {429, 402, 503}

\* A response body: its text (id, len) and what resp.json() makes of it:
\* valid   - whether the text parses as JSON
\* content - choices[0].message.content ("" when absent)
\* error   - error.message ("" when absent)
Body(i, n, v, c, e) == [id |-> i, len |-> n, valid |-> v, content |-> c, error |-> e]
ReplyBody == Body("reply-json", 50, TRUE, Str("reply", 5), EmptyStr)
ErrorBody == Body("error-json", 600, TRUE, EmptyStr, Str("provider error", 14))
EmptyBody == Body("{}", 2, TRUE, EmptyStr, EmptyStr)
HtmlBody == Body("<html>", 400, FALSE, EmptyStr, EmptyStr)
\* the bodies a response of status s may carry
Bodies(s) ==
    IF s = 200 THEN {ReplyBody, ErrorBody, EmptyBody, HtmlBody}
    ELSE {ErrorBody, HtmlBody}

Response(s, b) == [status_code |-> s, text |-> b]
\* last_resp = None
NoResp == [none |-> TRUE]

NoExc == [type |-> "None"]


(* ----------------- llm_client.py: _request_with_retry ----------------- *)

\* the reply test without the look at the content: any 200 with a JSON body
HasReplyAnyContent(resp) == resp.status_code = 200 /\ resp.text.valid

\* `resp.status_code == 200` and `choices and choices[0].get("message",
\* {}).get("content")`: a 200 response whose JSON carries a non-empty reply
HasReply(resp) ==
    /\ resp.status_code = 200
    /\ resp.text.valid
    /\ Truthy(resp.text.content)

\* `resp.status_code in (429, 402, 503)`
IsTransient(resp) == resp.status_code \in TransientStatuses

\* a backoff that does not grow: the attempt number is left out
WaitForFlat(delay, n) == delay

\* `wait = RETRY_DELAY * attempt`
WaitFor(delay, n) == delay * n

\* resp.raise_for_status(): raises HTTPError for 4xx and 5xx, returns
\* normally for every other status
RaisesForStatus(resp) == resp.status_code >= 400 /\ resp.status_code < 600

\* `if last_resp`: None is falsy, and a requests.Response is truthy exactly
\* when it is ok, i.e. when raise_for_status() would not raise
RespTruthy(resp) == resp # NoResp /\ ~RaisesForStatus(resp)

\* ContentBlockedError(f"Model {model} returned 403: {error_body}") with
\* error_body the JSON error message, or text[:300] when the body is no JSON
ContentBlockedError(model, resp) ==
    [type |-> "ContentBlockedError",
     model |-> model,
     error_body |-> IF resp.text.valid THEN resp.text.error
                    ELSE Slice(resp.text, BlockedBodyCap)]

\* RuntimeError(f"OpenRouter request failed after {MAX_RETRIES} retries.
\* Last status: {...}, body: {...}")
RetriesExhaustedError(retries, last) ==
    [type |-> "RuntimeError",
     text |-> "OpenRouter request failed",
     retries |-> ToString(retries),
     status |-> IF RespTruthy(last) THEN ToString(last.status_code) ELSE "?",
     body |-> IF RespTruthy(last) THEN Slice(last.text, ExhaustedBodyCap)
              ELSE Str("N/A", 3)]

\* requests.HTTPError raised by raise_for_status(); it carries the response
HTTPError(resp) ==
    [type |-> "HTTPError",
     status |-> ToString(resp.status_code),
     body |-> Str(resp.text.id, resp.text.len)]

\* resp.json() on a body that is no JSON
JSONDecodeError == [type |-> "JSONDecodeError"]
\* requests.post itself failing (timeout=120, connection refused, ...)
ConnectionError == [type |-> "ConnectionError"]

(* -------------------- llm_client.py: describe_image ------------------- *)

RECURSIVE AppendNew(_, _)
\* `for fb in ...: if fb not in models_to_try: models_to_try.append(fb)`
AppendNew(acc, fbs) ==
    IF fbs = <<>> THEN acc
    ELSE LET fb == Head(fbs)
         IN  AppendNew(IF \E i \in 1..Len(acc) : acc[i] = fb THEN acc
                       ELSE Append(acc, fb),
                       Tail(fbs))

\* the candidate list without the `if fb not in models_to_try` test
ModelsToTryAll(primary, fallbacks) == <<primary>> \o fallbacks

\* the ordered candidate list: primary model + fallbacks (deduplicated)
ModelsToTry(primary, fallbacks) == AppendNew(<<primary>>, fallbacks)

\* a walk whose handler is `except Exception`
CaughtByWalkAll(exc) == TRUE

\* `except ContentBlockedError` / `except RuntimeError`: the two handlers of
\* the fallback walk (HTTPError, JSONDecodeError and ConnectionError are
\* none of these and propagate)
CaughtByWalk(exc) == exc.type \in {"ContentBlockedError", "RuntimeError"}

\* the first error kept: `last_error = last_error or exc`
LastErrorFirst(prev, exc) == IF prev = NoExc THEN exc ELSE prev

\* `last_error = exc` in both handlers
LastError(prev, exc) == exc

\* RuntimeError(f"All vision models failed. Last error: {last_error}")
AllFailedError(last) ==
    [type |-> "RuntimeError",
     text |-> "All vision models failed",
     last |-> last]

(* ------------------ processors/base.py: the registry ------------------ *)

TextExts == {".txt", ".md", ".csv", ".json", ".xml", ".html", ".htm", ".log", ".rst"}
PdfExts == {".pdf"}
ImageExts == {".jpg", ".jpeg", ".png", ".gif", ".webp", ".bmp", ".tiff", ".tif"}

\* _EXTENSION_MAP after the three processor modules have registered
EXTENSION_MAP ==
    [e \in TextExts \cup PdfExts \cup ImageExts |->
        IF e \in TextExts THEN "TextProcessor"
        ELSE IF e \in PdfExts THEN "PDFProcessor"
        ELSE "ImageProcessor"]

\* a downloaded path: the directory it lies in, its name and the lowercased
\* suffix of the name (file_path.suffix.lower())
Path(d, n, e) == [dir |-> d, name |-> n, ext |-> e]

\* get_processor: the processor class name, or "None"
get_processor(file_path) ==
    IF file_path.ext \in DOMAIN EXTENSION_MAP THEN EXTENSION_MAP[file_path.ext]
    ELSE "None"

(* ------------------- downloader.py: download_folder ------------------- *)

\* the paths gdown may hand back, listed in the order sorted() gives them
\* (by directory, then by name); sub/a.txt shares its name with a.txt
PathOrder ==
    << Path(".", "a.txt", ".txt"),
       Path(".", "b.pdf", ".pdf"),
       Path(".", "c.PNG", ".png"),
       Path(".", "d.bin", ".bin"),
       Path("sub", "a.txt", ".txt") >>
Paths == {PathOrder[i] : i \in 1..Len(PathOrder)}

\* sorted(Path(p) for p in downloaded)
Sorted(S) == SelectSeq(PathOrder, LAMBDA p : p \in S)

\* download_folder: [] when gdown returned nothing, else the sorted paths
download_folder(downloaded) == IF downloaded = {} THEN <<>> ELSE Sorted(downloaded)

(* ------------------- summarizer.py: prompt assembly ------------------- *)

\* per_file[name] = content on an insertion-ordered dict: a new key goes to
\* the end, an existing key keeps its place and takes the new value
DictSet(d, name, content) ==
    IF \E i \in 1..Len(d) : d[i].name = name
    THEN [i \in 1..Len(d) |->
            IF d[i].name = name THEN [name |-> name, content |-> content] ELSE d[i]]
    ELSE Append(d, [name |-> name, content |-> content])

\* `content if content else placeholder`
Recorded(content) == IF Truthy(content) THEN content ELSE Placeholder

\* the all-failed test looking for empty texts instead of the placeholder
NothingExtractedEmpty(d) == \A i \in 1..Len(d) : d[i].content = EmptyStr

\* `not any(v != placeholder for v in per_file.values())`
NothingExtracted(d) == \A i \in 1..Len(d) : d[i].content = Placeholder

\* one part: f"### Файл: {name}\n\n{truncated}" with the truncation marker
\* appended when the content is longer than the cap
Section(name, content) ==
    [header |-> name,
     text |-> Slice(content, ContentCap),
     marker |-> content.len > ContentCap]

Intro == [header |-> "intro", text |-> EmptyStr, marker |-> FALSE]
Delimiter == [header |-> "---", text |-> EmptyStr, marker |-> FALSE]

RECURSIVE Join(_)
\* "\n\n---\n\n".join(parts)
Join(parts) ==
    IF Len(parts) <= 1 THEN parts
    ELSE <<Head(parts), Delimiter>> \o Join(Tail(parts))

\* combined_prompt: the fixed introduction, then the joined parts
CombinedPrompt(d) ==
    <<Intro>> \o Join([i \in 1..Len(d) |-> Section(d[i].name, d[i].content)])


(* ------------------------------- state -------------------------------- *)

VARIABLES
    \* config.py, read once from the environment
    VISION_MODEL, VISION_FALLBACK_MODELS, MAX_RETRIES, RETRY_DELAY,
    \* the remote folder: the paths gdown will hand back
    folder,
    \* summarize_folder
    pc,               \* control point: "idle", "extract", "request", "done"
    files,            \* the list download_folder returned
    iFile,            \* position of `for f in files` (1-based)
    per_file,         \* the insertion-ordered dict name -> content
    combined_prompt,  \* the prompt handed to chat (<<>> before it is built)
    result,           \* how summarize_folder ended: a return value or a raise
    \* _request_with_retry (the call in progress, when pc = "request")
    caller,           \* "vision" (describe_image), "chat" or "" (no call)
    payload,          \* the model of the payload
    attempt,          \* the loop variable
    last_resp,        \* the last response received in this call
    \* describe_image (the walk in progress)
    models_to_try, iModel, last_error,
    \* what the run did, as its collaborators and its log see it
    downloads,        \* calls of gdown.download_folder
    extracted,        \* positions handed to _extract_file_content, in order
    contents,         \* what _extract_file_content returned for each of them
    logged,           \* exception logged by _extract_file_content for the
                      \* file extracted last (NoExc: none)
    chats,            \* calls of llm_client.chat
    posts,            \* requests sent by the call in progress
    sleeps,           \* time.sleep() arguments of the call in progress
    posted,           \* <<caller, model>> of every request sent in the run
    raised            \* the exception the last finished call of
                      \* _request_with_retry raised (NoExc: it returned)

cfgVars == <<VISION_MODEL, VISION_FALLBACK_MODELS, MAX_RETRIES, RETRY_DELAY, folder>>
orchVars == <<pc, files, iFile, per_file, combined_prompt, result, contents, logged, chats>>
callVars == <<caller, payload, attempt, last_resp, posts, sleeps>>
walkVars == <<models_to_try, iModel, last_error>>
vars == <<cfgVars, orchVars, callVars, walkVars, downloads, extracted, posted, raised>>

NoResult == [kind |-> "none"]
Returned(text) == [kind |-> "return", value |-> text]
Raised(exc) == [kind |-> "raise", exc |-> exc]

\* the folders a run is given: at most MaxFiles of the paths
Folders == {S \in SUBSET Paths : Cardinality(S) <= MaxFiles}

InitWith(primaries, fallbackLists, retries, delays, folders) ==
    /\ VISION_MODEL \in primaries
    /\ VISION_FALLBACK_MODELS \in fallbackLists
    /\ MAX_RETRIES \in retries
    /\ RETRY_DELAY \in delays
    /\ folder \in folders
    /\ pc = "idle"
    /\ files = <<>>
    /\ iFile = 0
    /\ per_file = <<>>
    /\ combined_prompt = <<>>
    /\ result = NoResult
    /\ caller = ""
    /\ payload = ""
    /\ attempt = 0
    /\ last_resp = NoResp
    /\ models_to_try = <<>>
    /\ iModel = 0
    /\ last_error = NoExc
    /\ downloads = 0
    /\ extracted = <<>>
    /\ contents = <<>>
    /\ logged = NoExc
    /\ chats = 0
    /\ posts = 0
    /\ sleeps = <<>>
    /\ posted = {}
    /\ raised = NoExc

(* ------------------- control transfers (no action) -------------------- *)

\* entering _request_with_retry(payload) for caller c: `last_resp = None`
\* and the loop head with attempt 1
StartCall(c, model) ==
    /\ caller' = c
    /\ payload' = model
    /\ attempt' = 1
    /\ last_resp' = NoResp
    /\ posts' = 0
    /\ sleeps' = <<>>

\* no call of _request_with_retry is in progress
NoCall ==
    /\ caller' = ""
    /\ payload' = ""
    /\ attempt' = 0
    /\ last_resp' = NoResp
    /\ posts' = 0
    /\ sleeps' = <<>>

\* summarize_folder after the `for f in files` loop, with per_file = d:
\* the all-failed short cut, or the prompt and the one chat call
Summarize(d) ==
    IF NothingExtracted(d)
    THEN /\ pc' = "done"
         /\ result' = Returned(NothingExtractedMsg)
         /\ combined_prompt' = combined_prompt
         /\ chats' = chats
         /\ NoCall
    ELSE /\ pc' = "request"
         /\ result' = result
         /\ combined_prompt' = CombinedPrompt(d)
         /\ chats' = chats + 1
         /\ StartCall("chat", TEXT_MODEL)

\* Steps 3 and 4 indented into the `for f in files` loop: the prompt is built
\* and chat is called as soon as the first file is recorded
FinishExtractIndented(content, exc) ==
    LET d == DictSet(per_file, files[iFile].name, Recorded(content))
    IN  /\ per_file' = d
        /\ contents' = Append(contents, content)
        /\ logged' = exc
        /\ files' = files
        /\ iFile' = iFile
        /\ Summarize(d)

\* _extract_file_content(files[iFile]) ends with `content` (None when there
\* is no processor or the processor raised `exc`, which is then logged);
\* summarize_folder records it and goes on with the next file, or leaves the
\* loop after the last one
FinishExtract(content, exc) ==
    LET d == DictSet(per_file, files[iFile].name, Recorded(content))
    IN  /\ per_file' = d
        /\ contents' = Append(contents, content)
        /\ logged' = exc
        /\ files' = files
        /\ IF iFile < Len(files)
           THEN /\ iFile' = iFile + 1
                /\ pc' = "extract"
                /\ UNCHANGED <<combined_prompt, result, chats>>
                /\ NoCall
           ELSE /\ iFile' = iFile
                /\ Summarize(d)

\* `except Exception` in _extract_file_content: every exception class of
\* the model derives from Exception
ExceptionClasses ==
    {"ContentBlockedError", "RuntimeError", "HTTPError", "JSONDecodeError",
     "ConnectionError", "OSError"}
\* a handler that names the client's own errors only
CaughtByExtractNarrow(exc) == exc.type \in {"ContentBlockedError", "RuntimeError"}

CaughtByExtract(exc) == exc.type \in ExceptionClasses

\* an exception nobody catches leaves summarize_folder
Propagate(exc) ==
    /\ pc' = "done"
    /\ result' = Raised(exc)
    /\ NoCall
    /\ UNCHANGED <<files, iFile, per_file, combined_prompt, contents, logged, chats>>

\* processor.extract raises `exc` inside _extract_file_content
FailExtract(exc) ==
    IF CaughtByExtract(exc) THEN FinishExtract(None, exc) ELSE Propagate(exc)

\* describe_image is over: its locals are gone
NoWalk ==
    /\ models_to_try' = <<>>
    /\ iModel' = 0
    /\ last_error' = NoExc

\* _request_with_retry returns `reply` to its caller
ReturnReply(reply) ==
    /\ raised' = NoExc
    /\ IF caller = "chat"
       THEN \* chat returns the reply, summarize_folder returns it
            /\ pc' = "done"
            /\ result' = Returned(reply)
            /\ NoCall
            /\ UNCHANGED <<files, iFile, per_file, combined_prompt, contents, logged, chats>>
            /\ UNCHANGED walkVars
       ELSE \* describe_image returns it, ImageProcessor.extract returns it
            /\ FinishExtract(reply, NoExc)
            /\ NoWalk

\* _request_with_retry raises `exc` to its caller
RaiseExc(exc) ==
    /\ raised' = exc
    /\ IF caller = "chat"
       THEN \* nothing between chat and the caller of summarize_folder catches
            /\ Propagate(exc)
            /\ UNCHANGED walkVars
       ELSE IF CaughtByWalk(exc)
       THEN \* describe_image records the error and continues its loop
            IF iModel < Len(models_to_try)
            THEN /\ last_error' = LastError(last_error, exc)
                 /\ models_to_try' = models_to_try
                 /\ iModel' = iModel + 1
                 /\ StartCall("vision", models_to_try[iModel + 1])
                 /\ UNCHANGED orchVars
            ELSE \* the loop is over: the aggregate error, caught by
                 \* _extract_file_content
                 /\ FailExtract(AllFailedError(LastError(last_error, exc)))
                 /\ NoWalk
       ELSE \* any other exception leaves describe_image at once
            /\ FailExtract(exc)
            /\ NoWalk


(* ------------------------- summarize_folder --------------------------- *)

\* the empty-folder test left out
NoFilesNever(paths) == FALSE

\* `if not files`
NoFiles(paths) == paths = <<>>

\* Step 1: download_folder(folder_url, output_dir).  gdown hands back the
\* folder's paths, or nothing (None or []) when the folder is empty or
\* cannot be read; `if not files` is the empty-folder return.
DownloadFolder ==
    /\ pc = "idle"
    /\ \E downloaded \in {folder, {}} :
          LET paths == download_folder(downloaded)
          IN  /\ files' = paths
              /\ IF NoFiles(paths)
                 THEN /\ pc' = "done"
                      /\ result' = Returned(FolderEmptyMsg)
                      /\ iFile' = iFile
                      /\ UNCHANGED <<combined_prompt, chats, callVars>>
                 ELSE IF paths # <<>>
                 THEN \* the first iteration of `for f in files`
                      /\ pc' = "extract"
                      /\ iFile' = 1
                      /\ UNCHANGED <<result, combined_prompt, chats, callVars>>
                 ELSE \* a loop over no file falls through to the steps after it
                      /\ iFile' = iFile
                      /\ Summarize(<<>>)
    /\ downloads' = downloads + 1
    /\ UNCHANGED <<per_file, contents, logged>>
    /\ UNCHANGED <<cfgVars, walkVars, extracted, posted, raised>>

\* what a text or PDF processor may return: some text, a text longer than
\* the prompt's cap, or "" (no encoding fits, no page carries text)
LocalContents == {Str("hello", 5), Str("world", ContentCap + 1), EmptyStr}

\* what a processor may raise before any request is sent (unreadable file,
\* broken PDF, Pillow failing on the image)
OSError == [type |-> "OSError"]

\* Step 2, a file without a registered processor: get_processor returns
\* None, and so does _extract_file_content
ExtractNoHandler ==
    /\ pc = "extract"
    /\ get_processor(files[iFile]) = "None"
    /\ extracted' = Append(extracted, iFile)
    /\ FinishExtract(None, NoExc)
    /\ UNCHANGED <<cfgVars, walkVars, downloads, posted, raised>>

\* Step 2, a text or PDF file: processor.extract returns its text
ExtractLocal ==
    /\ pc = "extract"
    /\ get_processor(files[iFile]) \in {"TextProcessor", "PDFProcessor"}
    /\ extracted' = Append(extracted, iFile)
    /\ \E content \in LocalContents : FinishExtract(content, NoExc)
    /\ UNCHANGED <<cfgVars, walkVars, downloads, posted, raised>>

\* Step 2, processor.extract raises before the client is called: the
\* `except Exception` of _extract_file_content logs it and returns None
ExtractRaises ==
    /\ pc = "extract"
    /\ get_processor(files[iFile]) # "None"
    /\ extracted' = Append(extracted, iFile)
    /\ FailExtract(OSError)
    /\ UNCHANGED <<cfgVars, walkVars, downloads, posted, raised>>

\* Step 2, an image: _prepare_image succeeds, describe_image builds its
\* candidate list and enters _request_with_retry for the first candidate
ExtractImage ==
    /\ pc = "extract"
    /\ get_processor(files[iFile]) = "ImageProcessor"
    /\ extracted' = Append(extracted, iFile)
    /\ LET candidates == ModelsToTry(VISION_MODEL, VISION_FALLBACK_MODELS)
       IN  /\ models_to_try' = candidates
           /\ iModel' = 1
           /\ last_error' = NoExc
           /\ StartCall("vision", candidates[1])
    /\ pc' = "request"
    /\ UNCHANGED <<files, iFile, per_file, combined_prompt, result, contents, logged, chats>>
    /\ UNCHANGED <<cfgVars, downloads, posted, raised>>

(* ------------------------ _request_with_retry ------------------------- *)

\* the loop body runs: requests.post is called with the payload
Sends ==
    /\ pc = "request"
    /\ attempt <= MAX_RETRIES
    /\ posted' = posted \cup {<<caller, payload>>}
    /\ UNCHANGED <<cfgVars, downloads, extracted>>

\* the loop body ends without return or raise: the next iteration
NextAttempt(resp, slept) ==
    /\ attempt' = attempt + 1
    /\ last_resp' = resp
    /\ posts' = posts + 1
    /\ sleeps' = sleeps \o slept
    /\ UNCHANGED <<caller, payload, orchVars, walkVars, raised>>

\* requests.post raises (timeout, connection error)
PostRaises ==
    /\ Sends
    /\ RaiseExc(ConnectionError)

\* 200 with a non-empty reply: return it
Reply ==
    /\ Sends
    /\ \E body \in Bodies(200) :
          /\ HasReply(Response(200, body))
          /\ ReturnReply(body.content)

\* 200 with a body that is no JSON: resp.json() raises
BadJson ==
    /\ Sends
    /\ \E body \in Bodies(200) :
          /\ ~body.valid
          /\ RaiseExc(JSONDecodeError)

\* 200 without a reply (an error payload, or no content): none of the
\* status branches applies and raise_for_status() returns
NoReply ==
    /\ Sends
    /\ \E body \in Bodies(200) :
          /\ body.valid
          /\ ~HasReply(Response(200, body))
          /\ NextAttempt(Response(200, body), <<>>)

\* 429, 402 or 503: sleep RETRY_DELAY * attempt, then `continue`
Transient ==
    /\ Sends
    /\ \E s \in Statuses : \E body \in Bodies(s) :
          /\ IsTransient(Response(s, body))
          /\ NextAttempt(Response(s, body), <<WaitFor(RETRY_DELAY, attempt)>>)

\* 403: the provider blocked the content
Blocked ==
    /\ Sends
    /\ \E body \in Bodies(403) :
          RaiseExc(ContentBlockedError(payload, Response(403, body)))

\* every other status: resp.raise_for_status()
OtherStatus ==
    /\ Sends
    /\ \E s \in Statuses : \E body \in Bodies(s) :
          LET resp == Response(s, body)
          IN  /\ s # 200
              /\ ~IsTransient(resp)
              /\ s # 403
              /\ IF RaisesForStatus(resp)
                 THEN RaiseExc(HTTPError(resp))
                 ELSE NextAttempt(resp, <<>>)

\* the loop is over: the retries-exhausted error
RetriesExhausted ==
    /\ pc = "request"
    /\ attempt > MAX_RETRIES
    /\ RaiseExc(RetriesExhaustedError(MAX_RETRIES, last_resp))
    /\ UNCHANGED <<cfgVars, downloads, extracted, posted>>

(* --------------------------- specifications --------------------------- *)

Next ==
    \/ DownloadFolder
    \/ ExtractNoHandler
    \/ ExtractLocal
    \/ ExtractRaises
    \/ ExtractImage
    \/ PostRaises
    \/ Reply
    \/ BadJson
    \/ NoReply
    \/ Transient
    \/ Blocked
    \/ OtherStatus
    \/ RetriesExhausted

\* the pipeline on every folder of at most MaxFiles paths, with the primary
\* vision model M0, fallback lists that name M1, and a delay of 1
Init ==
    InitWith({"M0"}, SeqsUpTo({"M1"}, MaxFallbacks),
             0..MaxRetriesCfg, {1}, Folders)

Spec == Init /\ [][Next]_vars

\* the client under every configuration: the pipeline on a folder that
\* holds one image, and on a folder that holds none
ClientFolders ==
    {{p \in Paths : p.ext = ".png"}, {p \in Paths : p.dir = "." /\ p.ext \in {".txt", ".bin"}}}

InitClient ==
    InitWith(VisionModels, SeqsUpTo(VisionModels, MaxFallbacks),
             0..MaxRetriesCfg, 0..MaxDelayCfg, ClientFolders)

SpecClient == InitClient /\ [][Next]_vars


\* the candidate-list builder of describe_image on its own: every primary
\* model with every fallback list of at most MaxFallbackLen models
BuildCandidates ==
    /\ pc = "idle"
    /\ models_to_try = <<>>
    /\ models_to_try' = ModelsToTry(VISION_MODEL, VISION_FALLBACK_MODELS)
    /\ UNCHANGED <<cfgVars, orchVars, callVars, iModel, last_error>>
    /\ UNCHANGED <<downloads, extracted, posted, raised>>

InitCandidates ==
    InitWith(VisionModels, SeqsUpTo(VisionModels, MaxFallbackLen), {0}, {0}, {{}})

NextCandidates == BuildCandidates

SpecCandidates == InitCandidates /\ [][NextCandidates]_vars

(* ------------------------------ claims -------------------------------- *)

Range(seq) == {seq[i] : i \in 1..Len(seq)}
FirstIndex(seq, x) == CHOOSE i \in 1..Len(seq) : seq[i] = x /\ \A j \in 1..(i - 1) : seq[j] # x

\* a call of _request_with_retry made by describe_image is in progress
VisionCall == pc = "request" /\ caller = "vision"
\* the step ends the call in progress (the only step that does not is the
\* one that goes to the next attempt)
CallEnds == pc = "request" /\ attempt' # attempt + 1
\* the step ends the call in progress with an error the walk handles
WalkError == CallEnds /\ raised' # NoExc /\ CaughtByWalk(raised')
IsAllFailed(exc) == exc.type = "RuntimeError" /\ "last" \in DOMAIN exc

\* C1: describe_image tries the candidates in list order: the walk starts at
\* the first candidate, every request of the walk goes to the candidate the
\* walk stands at, and when a candidate's call ends blocked or exhausted the
\* walk moves to the next candidate of the list; when that candidate was the
\* last one, describe_image fails with the aggregate error, and the error
\* inside it is the one that last candidate's call raised.
C1_FallbackWalk ==
    [][ /\ (pc = "extract" /\ pc' = "request" /\ caller' = "vision")
            => iModel' = 1 /\ payload' = models_to_try'[1]
        /\ VisionCall =>
             /\ payload = models_to_try[iModel]
             /\ WalkError =>
                  IF iModel < Len(models_to_try)
                  THEN /\ pc' = "request" /\ caller' = "vision"
                       /\ models_to_try' = models_to_try
                       /\ iModel' = iModel + 1
                       /\ payload' = models_to_try[iModel + 1]
                       /\ attempt' = 1
                  ELSE /\ ~(pc' = "request" /\ caller' = "vision")
                       /\ logged' = AllFailedError(raised')
      ]_vars

\* C1 witness: a walk over two candidates has failed: the first was blocked
\* or exhausted, the second (the last) was blocked, and the aggregate error
\* logged for the file carries the second candidate's error
C1_Witness ==
    /\ IsAllFailed(logged)
    /\ logged.last.type = "ContentBlockedError"
    /\ logged.last.model # VISION_MODEL
    /\ logged.last = raised

\* C2: the candidate list starts with the primary model, holds no model
\* twice, holds every configured fallback and nothing else, and keeps the
\* fallbacks in the order of their first occurrence in the configured list.
C2_CandidateList ==
    LET c == models_to_try
        fb == VISION_FALLBACK_MODELS
    IN  c # <<>> =>
          /\ c[1] = VISION_MODEL
          /\ \A i, j \in 1..Len(c) : i < j => c[i] # c[j]
          /\ Range(c) = {VISION_MODEL} \cup Range(fb)
          /\ \A i, j \in 2..Len(c) : i < j => FirstIndex(fb, c[i]) < FirstIndex(fb, c[j])

\* C2 witness: primary M0 with fallbacks [M1, M0, M2] gives [M0, M1, M2]
C2_Witness ==
    /\ VISION_MODEL = "M0"
    /\ VISION_FALLBACK_MODELS = <<"M1", "M0", "M2">>
    /\ models_to_try = <<"M0", "M1", "M2">>

\* C3 (as claimed): when a call that has received at least one response runs
\* out of attempts, the error it raises reports the status code and the
\* body (its first 500 characters) of the last response received.
C3_ExhaustedReportsLast ==
    [][ (pc = "request" /\ attempt > MAX_RETRIES /\ last_resp # NoResp)
            => /\ raised'.type = "RuntimeError"
               /\ raised'.status = ToString(last_resp.status_code)
               /\ raised'.body = Slice(last_resp.text, ExhaustedBodyCap)
      ]_vars

\* C4 (as claimed): a response whose status is neither 200, nor transient,
\* nor 403 makes the call fail on that attempt, so that no further request
\* is sent for the payload: the call never stands at the head of its retry
\* loop, with an attempt left, after such a response.
C4_OtherStatusFailsAtOnce ==
    (pc = "request" /\ last_resp # NoResp /\ attempt <= MAX_RETRIES)
        => last_resp.status_code \in {200} \cup TransientStatuses

\* C5: a transient response on attempt n is followed by a sleep of exactly
\* RETRY_DELAY * n and the call stays in its loop with the same payload (a
\* request is sent again when n < MAX_RETRIES); the sleeps of one call are
\* strictly increasing when RETRY_DELAY is positive; and a call has sent
\* attempt - 1 requests at the loop head, never more than MAX_RETRIES.
C5_State ==
    /\ pc = "request" =>
         /\ posts = attempt - 1
         /\ posts <= MAX_RETRIES
         /\ Len(sleeps) <= posts
    /\ RETRY_DELAY > 0 =>
         \A i, j \in 1..Len(sleeps) : i < j => sleeps[i] < sleeps[j]

C5_Step ==
    /\ (posts' = posts + 1) => (pc = "request" /\ attempt <= MAX_RETRIES)
    /\ (posts' = posts + 1 /\ IsTransient(last_resp')) =>
         /\ sleeps' = Append(sleeps, RETRY_DELAY * attempt)
         /\ pc' = "request"
         /\ payload' = payload /\ caller' = caller
         /\ attempt' = attempt + 1
    /\ (posts' = posts + 1 /\ ~IsTransient(last_resp')) => sleeps' = sleeps

Lookup(d, name) == d[CHOOSE i \in 1..Len(d) : d[i].name = name].content
\* [1, 2, ..., n]
UpTo(n) == [i \in 1..n |-> i]

\* C6 (as claimed): the prompt handed to chat is the introduction followed
\* by one section per downloaded file, in download order, joined by the
\* delimiter; section i is headed by the name of file i and carries what was
\* extracted from file i (cut at the cap) or the placeholder.
C6_OneSectionPerFile ==
    combined_prompt # <<>> =>
        combined_prompt =
            <<Intro>> \o Join([i \in 1..Len(files) |->
                                  Section(files[i].name, Recorded(contents[i]))])

\* C7: a file that has no processor, or whose processor raises, is recorded
\* with the placeholder and does not end the run: the loop goes on with the
\* next file, or with the steps after the loop; a run ends with every file
\* extracted, and only the chat call makes a run end in an exception.
C7_State ==
    /\ result.kind = "raise" => (chats = 1 /\ Len(contents) = Len(files))
    /\ (pc = "done" /\ files # <<>>) =>
         (Len(contents) = Len(files) /\ extracted = UpTo(Len(files)))

C7_Step ==
    (Len(contents') = Len(contents) + 1 /\ contents'[Len(contents')] = None) =>
        /\ Lookup(per_file', files[iFile].name) = Placeholder
        /\ result'.kind # "raise"
        /\ IF iFile < Len(files)
           THEN pc' = "extract" /\ iFile' = iFile + 1
           ELSE pc' \in {"done", "request"} /\ (pc' = "request" => caller' = "chat")

\* C7: a per-file failure never aborts the run, as the state part (how a
\* run ends) and the step part (what a failed extraction does) together
C7_FileFailureNeverAborts == []C7_State /\ [][C7_Step]_vars

\* C7 witness: the first file is an image whose description failed after
\* requests to the vision model, it is recorded with the placeholder, and
\* the second file was extracted and the run came to its end
C7_Witness ==
    /\ pc = "done"
    /\ Len(files) = 2
    /\ contents[1] = None
    /\ per_file[1].content = Placeholder
    /\ <<"vision", VISION_MODEL>> \in posted
    /\ Truthy(contents[2])
    /\ result.kind = "return"

\* C8: when every downloaded file failed (no processor, an exception or an
\* empty text), the run is over with the nothing-extracted message: no
\* prompt was built, chat was not called and no chat request was sent.
C8_AllFailedNoChat ==
    (/\ files # <<>>
     /\ Len(contents) = Len(files)
     /\ \A i \in 1..Len(contents) : ~Truthy(contents[i]))
        => /\ pc = "done"
           /\ result = Returned(NothingExtractedMsg)
           /\ chats = 0
           /\ combined_prompt = <<>>
           /\ \A q \in posted : q[1] # "chat"

\* C8 witness: two files, the first with an empty text, the second failed
C8_Witness ==
    /\ pc = "done"
    /\ Len(files) = 2
    /\ contents = <<EmptyStr, None>>
    /\ result = Returned(NothingExtractedMsg)

\* C9: when the downloader yields no file, the run is over with the
\* folder-empty message, and no file was handed to an extractor, no request
\* (vision or chat) was sent and chat was not called.
C9_EmptyFolder ==
    (pc = "done" /\ files = <<>>)
        => /\ result = Returned(FolderEmptyMsg)
           /\ downloads = 1
           /\ extracted = <<>>
           /\ contents = <<>>
           /\ posted = {}
           /\ chats = 0

\* C9 witness: gdown handed back nothing for a folder that holds files
C9_Witness ==
    /\ pc = "done"
    /\ files = <<>>
    /\ folder # {}
    /\ result = Returned(FolderEmptyMsg)

\* C10: the downloader is called once, before anything else; the files are
\* extracted one at a time, each once, in list order; chat is called at most
\* once and only when every file has been extracted; and a run that called
\* chat returns chat's reply or fails with chat's exception.
C10_Pipeline ==
    /\ downloads = IF pc = "idle" THEN 0 ELSE 1
    /\ extracted = UpTo(Len(extracted))
    /\ Len(extracted) <= Len(files)
    /\ Len(contents) <= Len(extracted)
    /\ Len(extracted) <= Len(contents) + 1
    /\ Len(extracted) = Len(contents) + 1 => VisionCall
    /\ chats <= 1
    /\ (chats > 0 \/ (pc = "request" /\ caller = "chat") \/ \E q \in posted : q[1] = "chat")
         => (chats = 1 /\ files # <<>> /\ Len(contents) = Len(files))
    /\ (pc = "done" /\ files # <<>>) => Len(contents) = Len(files)
    /\ (pc = "done" /\ chats = 1) =>
         IF raised = NoExc
         THEN result = Returned(ReplyBody.content)
         ELSE result = Raised(raised)

\* C10 witness: a run over two files, one of them an image described by the
\* vision model, ended with the reply of its one chat call
C10_Witness ==
    /\ pc = "done"
    /\ Len(files) = 2
    /\ chats = 1
    /\ <<"vision", VISION_MODEL>> \in posted
    /\ <<"chat", TEXT_MODEL>> \in posted
    /\ result = Returned(ReplyBody.content)


\* the step ends the call in progress with a reply
CallReturns == CallEnds /\ raised' = NoExc
\* what the call in progress returned, in a step where it returns: chat's
\* reply is the run's result, describe_image's reply is the file's content
ReturnedReply == IF caller = "chat" THEN result'.value ELSE contents'[Len(contents')]

\* C11: a 200 response without a reply uses up one attempt of the call and
\* nothing else: the call goes to its next attempt with the same payload,
\* without a sleep, a return or an exception; a call with an attempt left
\* sends its request; a call returns non-empty replies only; and the
\* retries-exhausted error is raised only at the end of the loop, after
\* MAX_RETRIES requests, without a further request.
C11_Step ==
    /\ (posts' = posts + 1 /\ last_resp'.status_code = 200) =>
         /\ ~HasReply(last_resp')
         /\ pc' = "request"
         /\ attempt' = attempt + 1
         /\ payload' = payload /\ caller' = caller
         /\ sleeps' = sleeps
         /\ raised' = raised /\ result' = result /\ contents' = contents
    /\ (pc = "request" /\ attempt <= MAX_RETRIES) => <<caller, payload>> \in posted'
    /\ CallReturns => Truthy(ReturnedReply)
    /\ (pc = "request" /\ attempt > MAX_RETRIES) =>
         /\ posts = MAX_RETRIES
         /\ posted' = posted
         /\ raised'.type = "RuntimeError"
         /\ raised'.text = "OpenRouter request failed"
    /\ (CallEnds /\ raised'.type = "RuntimeError") => attempt > MAX_RETRIES

C11_NoReplyUsesOneAttempt == [][C11_Step]_vars

\* C11 witness: with MAX_RETRIES = 2 a call got two 200 responses without a
\* reply, slept never, and failed with the retries-exhausted error, which
\* names the status 200 of the last of them
C11_Witness ==
    /\ MAX_RETRIES = 2
    /\ pc = "done"
    /\ result.kind = "raise"
    /\ raised.type = "RuntimeError"
    /\ raised.status = "200"
    /\ raised.retries = "2"
    /\ posted = {<<"chat", TEXT_MODEL>>}

\* the two outcomes of a call that the claim excepts: the content filter's
\* refusal and the exhausted retries
BlockedOrExhausted(exc) == exc.type \in {"ContentBlockedError", "RuntimeError"}

\* C12: when a candidate's call ends otherwise than blocked or exhausted,
\* the walk is over in that step: a reply is what describe_image returns for
\* the file, any other exception is the one that leaves describe_image (it
\* is logged for the file as it is, not inside the aggregate error); and no
\* request goes to a later candidate, since a request is sent only by the
\* call in progress and a vision call starts only with a new describe_image.
C12_Step ==
    /\ \A q \in posted' \ posted : pc = "request" /\ q = <<caller, payload>>
    /\ (pc' = "request" /\ caller' = "vision" /\ ~VisionCall) => pc = "extract"
    /\ (VisionCall /\ CallReturns) =>
         /\ ~(pc' = "request" /\ caller' = "vision")
         /\ iModel' = 0
         /\ contents' = Append(contents, ReplyBody.content)
         /\ Lookup(per_file', files[iFile].name) = ReplyBody.content
         /\ logged' = NoExc
    /\ (VisionCall /\ CallEnds /\ raised' # NoExc /\ ~BlockedOrExhausted(raised')) =>
         /\ ~(pc' = "request" /\ caller' = "vision")
         /\ iModel' = 0
         /\ logged' = raised'
         /\ ~IsAllFailed(logged')
         /\ contents' = Append(contents, None)

C12_OtherOutcomeEndsWalk == [][C12_Step]_vars

\* C12 witness: the primary model M0 answered with an unexpected status, the
\* HTTPError was logged for the file as it is, and the configured fallback
\* M1 got no request
C12_Witness ==
    /\ VISION_MODEL = "M0"
    /\ VISION_FALLBACK_MODELS = <<"M1">>
    /\ logged.type = "HTTPError"
    /\ contents = <<None>>
    /\ posted = {<<"vision", "M0">>}

====
